---- MODULE Spec2Model ----
(***************************************************************************)
(* State-machine model of the capsule-network repository:                  *)
(*   - adversarial_attack (cifar10/capsnet.py): the per-sample attack loop *)
(*     and its bookkeeping;                                                *)
(*   - main of both entry points (cifar10/capsnet.py and                   *)
(*     symmetric_forms/main.py): argument handling, model construction,    *)
(*     weight loading, mode dispatch, closing banner;                      *)
(*   - the capsule layer's forward pass (routing-by-agreement) and Mask,   *)
(*     as wired by create_capsnet.  capsule.py is not among the source     *)
(*     files, so the layer internals follow spec.md sections 4.1, 4.3, 4.5.*)
(* Each subsystem has its own specification (SpecAttack, SpecMain,         *)
(* SpecCapsNet); the variables of the other subsystems stay at their       *)
(* initial values.                                                         *)
(***************************************************************************)
EXTENDS Integers, Sequences, FiniteSets, TLC

VARIABLES
    \* ---- adversarial_attack ----
    a_pc,                 \* "loop" | "done" | "IndexError" | "ZeroDivisionError"
    y_test,               \* true class of each test sample (argmax of the one-hot row)
    max_num_attacks,      \* parameter
    epsilon,              \* parameter, in units of 0.01
    debug,                \* parameter, reassigned by the loop
    test_id,              \* loop variable: the next index range() yields
    num_attacks,
    num_success_attacks,
    samples,              \* history: one record per examined sample
    attack_calls,         \* history: calls of the foolbox attack
    shown,                \* history: test ids whose attack image was shown
    report,               \* what the function printed after the loop
    \* ---- main (both entry points) ----
    program,              \* "cifar10" | "symmetric_forms"
    args,                 \* the parsed command line
    path_exists,          \* os.path.exists(args.weights), were it asked
    m_pc,                 \* position in main
    n_class,              \* number of classes of the loaded dataset (0: not loaded)
    created,              \* calls of create_capsnet, in order
    mode,                 \* the mode main entered ("none" before the dispatch)
    events,               \* what main printed and called, in order
    layer_weights,        \* the weights each layer instance holds: "random" | "loaded" | "trained"
    runs,                 \* history: the model each mode function was given, with the weights it saw
    \* ---- the network create_capsnet built, one forward pass at a time ----
    cfg,                  \* n_class, out_dim, num_routing given to create_capsnet
    net,                  \* what create_capsnet wired
    W,                    \* transformation weights W[i][j] (learned, fixed here)
    c_pc,                 \* "idle" | "routing" | "routed" | "returned"
    u,                    \* outputs of the lower (primary) capsules
    b,                    \* routing logits b[i][j]
    c,                    \* coupling coefficients c[i][j], as fractions
    v,                    \* outputs v[j] of the latest routing iteration
    r_iter,               \* routing iterations done in this pass
    carried,              \* history: the logits were non-zero when the pass began
    caps_out,             \* the capsule layer's output (caps1)
    mask_model,           \* the model whose Mask ran: "train" | "eval" | "none"
    y,                    \* the label fed to the training model (0: none)
    masked,               \* the Mask layer's output, flattened
    \* ---- train(model, data, args): the training generator and its consumer ----
    g_pc,                 \* "idle" | "suspended" (the generator waits for a pull) | "fitted"
    g_program,            \* "cifar10" | "symmetric_forms"
    g_args,               \* crop_x, crop_y, batch_size, shift_fraction, epochs
    x_train,              \* the training images, by identity
    y_train,              \* their labels
    pulls,                \* history: how often fit_generator asked for a batch
    yields,               \* history: how many items the generator yielded
    item,                 \* the item yielded last (None before the first)
    \* ---- manipulate_latent(model, n_class, out_dim, data, args) ----
    ml_pc,                \* "idle" | "selected" | "loop" | "stacked" | "error"
    ml_program,           \* "cifar10" | "symmetric_forms"
    ml_args,              \* manipulate, crop_x, crop_y
    ml_dims,              \* n_class, out_dim
    ml_y_true,            \* the labels of the test samples (argmax of the one-hot rows)
    index,                \* index[i]: sample i has the class args.manipulate
    number,               \* the random position among the samples of that class
    chosen,               \* the test sample picked (0: none), and whether it was cropped
    noise,                \* the base noise tensor noise[class][dim]
    ml_dim,               \* the capsule dimension being swept
    ml_r,                 \* the perturbation value, a double
    x_recons,             \* history: the predictions made, each with its dim, r and noise input
    \* ---- test(model, data, args) ----
    t_pc,                 \* "idle" | "predicting" | "predicted" | "comparing" | "done" | "ValueError" | "IndexError"
    t_program,            \* "cifar10" | "symmetric_forms"
    t_args,               \* crop_x, crop_y
    t_y_true,             \* the labels of the test samples (argmax of the one-hot rows)
    test_batch_size,      \* 100 in cifar10, 32 in symmetric_forms; scaled down here
    steps,                \* len(x_true) // test_batch_size
    pulled,               \* batches predict_generator has taken from the generator
    x_augmented,          \* the augmented images the generator has cached
    y_pred,               \* the predicted labels, one per image predicted
    t_i,                  \* the index of the loop over the test samples
    saved                 \* history: the indices i of the wrongly_classified_i images saved

attackVars == <<a_pc, y_test, max_num_attacks, epsilon, debug, test_id,
                num_attacks, num_success_attacks, samples, attack_calls,
                shown, report>>

mainVars == <<program, args, path_exists, m_pc, n_class, created, mode, events,
              layer_weights, runs>>

capsVars == <<cfg, net, W, c_pc, u, b, c, v, r_iter, carried, caps_out,
              mask_model, y, masked>>

trainVars == <<g_pc, g_program, g_args, x_train, y_train, pulls, yields,
               item>>

manipVars == <<ml_pc, ml_program, ml_args, ml_dims, ml_y_true, index, number,
               chosen, noise, ml_dim, ml_r, x_recons>>

testVars == <<t_pc, t_program, t_args, t_y_true, test_batch_size, steps,
              pulled, x_augmented, y_pred, t_i, saved>>

vars == <<attackVars, mainVars, capsVars, trainVars, manipVars,
          testVars>>

\* what each subsystem leaves alone
notAttackVars == <<mainVars, capsVars, trainVars, manipVars, testVars>>
notMainVars == <<attackVars, capsVars, trainVars, manipVars, testVars>>
notCapsVars == <<attackVars, mainVars, trainVars, manipVars, testVars>>
notTrainVars == <<attackVars, mainVars, capsVars, manipVars, testVars>>
notManipVars == <<attackVars, mainVars, capsVars, trainVars, testVars>>
notTestVars == <<attackVars, mainVars, capsVars, trainVars, manipVars>>

(***************************************************************************)
(* Bounds of the model.                                                    *)
(***************************************************************************)
NumLabels == 2          \* classes a test label / a prediction ranges over
MaxTestLen == 3         \* longest test set
MaxNumAttacks == 3      \* largest max_num_attacks (the default is 500)
MaxEpsilon == 2         \* epsilon ranges over 1..MaxEpsilon hundredths
MaxRouting == 2         \* --num_routing ranges over -1..MaxRouting
MaxCrop == 1            \* --crop_x / --crop_y range over None and 1..MaxCrop
MaxSymClasses == 2      \* distinct labels the symmetric-forms data may hold
MaxClasses == 3         \* n_class of a network that is run: 2..MaxClasses
MaxDim == 2             \* out_dim of a network that is run: 1..MaxDim
NumLower == 2           \* number of lower (primary) capsules
MaxVal == 1             \* a lower capsule's output ranges over -MaxVal..MaxVal
MaxSeed == 1            \* weight patterns 0..MaxSeed
FixedPointOne == 8      \* the real number 1 in the fixed-point format of s and v
MaxTrainLen == 2        \* number of training images
MaxBatch == 2           \* --batch_size ranges over 1..MaxBatch
MaxEpochs == 2          \* --epochs ranges over 1..MaxEpochs
MaxOffset == 1          \* a random crop starts at 0..MaxOffset (within the image)
MaxManipLen == 2        \* longest test set manipulate_latent is given
MaxTestN == 3           \* test() gets 1..MaxTestN test samples
MaxTestBatch == 2       \* test_batch_size ranges over 1..MaxTestBatch

Labels == 0 .. NumLabels - 1

RECURSIVE SeqsUpTo(_, _)
SeqsUpTo(S, n) ==
    IF n = 0 THEN {<<>>}
    ELSE LET shorter == SeqsUpTo(S, n - 1)
         IN shorter \cup {Append(s, x) : s \in {t \in shorter : Len(t) = n - 1}, x \in S}

(***************************************************************************)
(* adversarial_attack(fool_model, x_test, y_test, max_num_attacks=500,     *)
(*                    epsilon=0.01, debug=False)                           *)
(* The network and the foolbox attack are opaque: a prediction is any      *)
(* label, an attack returns None or an adversarial image.                  *)
(***************************************************************************)

\* mutant: the loop runs one index too far
LoopIndicesOffByOne(m) == 0 .. m

\* for test_id in range(max_num_attacks)
LoopIndices(m) == 0 .. m - 1

\* np.argmax(y_test[test_id]): the class of the one-hot row (Python indexes from 0)
TrueLabel(ys, i) == ys[i + 1]

\* mutant: the skip test inverted
OriginalPredictionWrongInverted(y_prediction, y_true) == y_prediction = y_true

\* if(y_prediction != y_true): continue
OriginalPredictionWrong(y_prediction, y_true) == y_prediction # y_true

\* num_attacks += 1
CountAttack(n) == n + 1

\* mutant: every adversarial image found counts as a success
AttackSucceededAlways(y_adversarial, y_true) == TRUE

\* if(y_adversarial != y_true): num_success_attacks += 1
AttackSucceeded(y_adversarial, y_true) == y_adversarial # y_true

CountSuccess(n, y_adversarial, y_true) ==
    IF AttackSucceeded(y_adversarial, y_true) THEN n + 1 ELSE n

\* mutant: the zero-attack case is not told apart
NoAttackExecutedNever(n) == FALSE

\* if num_attacks == 0: warning
NoAttackExecuted(n) == n = 0

\* num_success_attacks / num_attacks * 100, kept as the fraction (s * 100) / n;
\* Python raises ZeroDivisionError for n = 0
SuccessRate(s, n) ==
    IF n = 0 THEN [err |-> TRUE, num |-> 0, den |-> 0]
    ELSE [err |-> FALSE, num |-> s * 100, den |-> n]

NoReport == [kind |-> "none", attacks |-> 0, success |-> 0, num |-> 0, den |-> 0]

InLoop == a_pc = "loop" /\ test_id \in LoopIndices(max_num_attacks)

Sample(id, y_true, y_prediction, attacked, found, y_adversarial) ==
    [id |-> id, y_true |-> y_true, y_prediction |-> y_prediction,
     attacked |-> attacked, found |-> found, y_adversarial |-> y_adversarial]

\* x_test[test_id] with test_id past the end of the test set
AttackIndexError ==
    /\ UNCHANGED notAttackVars
    /\ InLoop
    /\ test_id >= Len(y_test)
    /\ a_pc' = "IndexError"
    /\ UNCHANGED <<y_test, max_num_attacks, epsilon, debug, test_id, num_attacks,
                   num_success_attacks, samples, attack_calls, shown, report>>

\* the unperturbed prediction is wrong: continue
AttackSkip ==
    /\ UNCHANGED notAttackVars
    /\ InLoop
    /\ test_id < Len(y_test)
    /\ \E y_prediction \in Labels :
         LET y_true == TrueLabel(y_test, test_id) IN
         /\ OriginalPredictionWrong(y_prediction, y_true)
         /\ samples' = Append(samples,
                Sample(test_id, y_true, y_prediction, FALSE, FALSE, -1))
    /\ test_id' = test_id + 1
    /\ UNCHANGED <<a_pc, y_test, max_num_attacks, epsilon, debug, num_attacks,
                   num_success_attacks, attack_calls, shown, report>>

\* the attack ran and returned None: continue
AttackNotFound ==
    /\ UNCHANGED notAttackVars
    /\ InLoop
    /\ test_id < Len(y_test)
    /\ \E y_prediction \in Labels :
         LET y_true == TrueLabel(y_test, test_id) IN
         /\ ~OriginalPredictionWrong(y_prediction, y_true)
         /\ attack_calls' = Append(attack_calls,
                [id |-> test_id, label |-> y_true, epsilons |-> <<epsilon>>])
         /\ num_attacks' = CountAttack(num_attacks)
         /\ samples' = Append(samples,
                Sample(test_id, y_true, y_prediction, TRUE, FALSE, -1))
    /\ test_id' = test_id + 1
    /\ UNCHANGED <<a_pc, y_test, max_num_attacks, epsilon, debug,
                   num_success_attacks, shown, report>>

\* mutant: the flag is left set after the image was shown
DebugAfterShowKept == TRUE

\* img.show() is followed by debug = False
DebugAfterShow == FALSE

\* the attack ran and returned an adversarial image, which is classified again
AttackFound ==
    /\ UNCHANGED notAttackVars
    /\ InLoop
    /\ test_id < Len(y_test)
    /\ \E y_prediction \in Labels, y_adversarial \in Labels :
         LET y_true == TrueLabel(y_test, test_id) IN
         /\ ~OriginalPredictionWrong(y_prediction, y_true)
         /\ attack_calls' = Append(attack_calls,
                [id |-> test_id, label |-> y_true, epsilons |-> <<epsilon>>])
         /\ num_attacks' = CountAttack(num_attacks)
         /\ num_success_attacks' =
                CountSuccess(num_success_attacks, y_adversarial, y_true)
         /\ samples' = Append(samples,
                Sample(test_id, y_true, y_prediction, TRUE, TRUE, y_adversarial))
    /\ IF debug
         THEN shown' = Append(shown, test_id) /\ debug' = DebugAfterShow
         ELSE UNCHANGED <<shown, debug>>
    /\ test_id' = test_id + 1
    /\ UNCHANGED <<a_pc, y_test, max_num_attacks, epsilon, report>>

\* after the loop: the warning, or the results block with the success rate
AttackReport ==
    /\ UNCHANGED notAttackVars
    /\ a_pc = "loop"
    /\ test_id \notin LoopIndices(max_num_attacks)
    /\ IF NoAttackExecuted(num_attacks)
         THEN /\ report' = [NoReport EXCEPT !.kind = "warning"]
              /\ a_pc' = "done"
         ELSE LET rate == SuccessRate(num_success_attacks, num_attacks) IN
              IF rate.err
                THEN /\ a_pc' = "ZeroDivisionError"
                     /\ report' = [NoReport EXCEPT !.kind = "partial",
                                       !.attacks = num_attacks,
                                       !.success = num_success_attacks]
                ELSE /\ a_pc' = "done"
                     /\ report' = [kind |-> "results", attacks |-> num_attacks,
                                   success |-> num_success_attacks,
                                   num |-> rate.num, den |-> rate.den]
    /\ UNCHANGED <<y_test, max_num_attacks, epsilon, debug, test_id, num_attacks,
                   num_success_attacks, samples, attack_calls, shown>>


(***************************************************************************)
(* create_capsnet(input_shape, n_class, out_dim, num_routing)              *)
(* The graph it wires, as a record: the arguments it hands to the layers   *)
(* and the inputs of the Mask of each model it returns.                    *)
(***************************************************************************)

\* An optional argument: <<>> is None, <<v>> is the value v.
None == <<>>
Some(val) == <<val>>
IsNone(o) == o = <<>>
Get(o) == o[1]

\* mutant: the capsule layer is built with one routing iteration too many
CapsuleLayerArgsExtraRouting(n, out_dim, num_routing) ==
    [num_capsule |-> n, dim_vector |-> out_dim, num_routing |-> num_routing + 1]

\* CapsuleLayer(num_capsule=n_class, dim_vector=out_dim, num_routing=num_routing)
CapsuleLayerArgs(n, out_dim, num_routing) ==
    [num_capsule |-> n, dim_vector |-> out_dim, num_routing |-> num_routing]

\* masked_by_y = Mask()([caps1, y])
TrainMaskInputs == <<"caps1", "y">>

\* mutant: the evaluation model is wired to the label-driven mask
EvalMaskInputsByLabel == <<"caps1", "y">>

\* masked = Mask()(caps1)
EvalMaskInputs == <<"caps1">>

\* masked_noised_y = Mask()([noised_digit_caps, y])
ManipulateMaskInputs == <<"noised_digit_caps", "y">>

\* decoder.add(layers.Dense(512, activation='relu', input_dim=out_dim*n_class))
DecoderInputDim(n, out_dim) == out_dim * n

\* the layer instances that hold no weights: Length, the three Mask layers, Add
Weightless == {"capsnet", "mask_by_y", "mask", "mask_noised_y", "add"}

\* mutant: each model gets a decoder of its own
DecoderInstancePerModel(m) == IF m = "train" THEN "decoder" ELSE "decoder_" \o m

\* decoder = models.Sequential(name='decoder'): made once, called three times
DecoderInstance(m) == "decoder"

\* models.Model(inputs, outputs): each model with its inputs, the layer
\* instances its outputs are computed through, and what its Mask is called on
ModelGraphs(prog) ==
    LET capsules == {"conv1", "primary_caps", "caps1"}
        train_model == [inputs |-> <<"x", "y">>,
                        layers |-> capsules \cup {"capsnet", "mask_by_y", DecoderInstance("train")},
                        mask |-> TrainMaskInputs]
        eval_model == [inputs |-> <<"x">>,
                       layers |-> capsules \cup {"capsnet", "mask", DecoderInstance("eval")},
                       mask |-> EvalMaskInputs]
        fool_model == [inputs |-> <<"x">>,
                       layers |-> capsules \cup {"capsnet"},
                       mask |-> <<>>]
        manipulate_model == [inputs |-> <<"x", "y", "noise">>,
                             layers |-> capsules \cup {"add", "mask_noised_y",
                                                       DecoderInstance("manipulate")},
                             mask |-> ManipulateMaskInputs]
    IN [m \in {"train", "eval", "manipulate"} \cup (IF prog = "cifar10" THEN {"fool"} ELSE {}) |->
          IF m = "train" THEN train_model
          ELSE IF m = "eval" THEN eval_model
          ELSE IF m = "manipulate" THEN manipulate_model
          ELSE fool_model]

\* every layer instance with weights that create_capsnet made
WeightedLayers(graphs) == (UNION {graphs[m].layers : m \in DOMAIN graphs}) \ Weightless

\* the weights a model computes with
WeightsSeen(graph, weights) == [l \in graph.layers \ Weightless |-> weights[l]]

\* model.load_weights / training sets the weights of the layers of that model
SetWeights(graph, weights, to) ==
    [l \in DOMAIN weights |-> IF l \in graph.layers THEN to ELSE weights[l]]

\* a mode function is given one of the models
ModelRun(graphs, m, weights) ==
    [model |-> m, mask |-> graphs[m].mask, weights |-> WeightsSeen(graphs[m], weights)]

create_capsnet(prog, input_shape, n, out_dim, num_routing) ==
    [input_shape |-> input_shape,
     caps1 |-> CapsuleLayerArgs(n, out_dim, num_routing),
     y_shape |-> n,
     decoder_input_dim |-> DecoderInputDim(n, out_dim),
     train_mask |-> TrainMaskInputs,
     eval_mask |-> EvalMaskInputs,
     manipulate_mask |-> ManipulateMaskInputs,
     has_fool_model |-> (prog = "cifar10"),
     models |-> ModelGraphs(prog)]

\* layers.Input(shape=input_shape) takes a flat tuple of integers; a dimension
\* is kept here as a sequence, <<d>> for the integer d, so that a tuple nested
\* inside the shape stays visible
IsFlatShape(shape) == \A k \in DOMAIN shape : Len(shape[k]) = 1

(***************************************************************************)
(* main(args) of cifar10/capsnet.py and of symmetric_forms/main.py         *)
(***************************************************************************)
capsnet_out_dim_cifar10 == 42
capsnet_out_dim_symmetric == 3
none_of_the_above_class == 1
cifar10_classes == 10
cifar10_size == 32
image_channels == 3
WIDTH == 28
HEIGHT == 28

Programs == {"cifar10", "symmetric_forms"}

OptCrop == {None} \cup {Some(crop) : crop \in 1 .. MaxCrop}

\* argparse: type=int, any integer is accepted for --num_routing
NumRoutingValues == -1 .. MaxRouting

ArgSets(prog) ==
    [testing : BOOLEAN,
     fool : IF prog = "cifar10" THEN BOOLEAN ELSE {FALSE},
     weights : {None, Some("weights.hdf5")},
     num_routing : NumRoutingValues,
     crop_x : IF prog = "cifar10" THEN OptCrop ELSE {None},
     crop_y : IF prog = "cifar10" THEN OptCrop ELSE {None},
     max_num_samples : {None, Some(1)}]

\* x_train.shape[1:] after load_dataset's reshape
DatasetShape(prog) ==
    IF prog = "cifar10"
      THEN <<Some(cifar10_size), Some(cifar10_size), Some(image_channels)>>
      ELSE <<Some(WIDTH), Some(HEIGHT), Some(image_channels)>>

\* shape = (args.crop_x, args.crop_y, x_train.shape[1:3]) if both crops are
\* given else x_train.shape[1:]; x_train.shape[1:3] is the pair (height, width)
CalcShape(prog, a) ==
    IF prog = "cifar10" /\ ~IsNone(a.crop_x) /\ ~IsNone(a.crop_y)
      THEN <<a.crop_x, a.crop_y, <<DatasetShape(prog)[1][1], DatasetShape(prog)[2][1]>> >>
      ELSE DatasetShape(prog)

OutDim(prog) ==
    IF prog = "cifar10" THEN capsnet_out_dim_cifar10 ELSE capsnet_out_dim_symmetric

\* if args.weights is not None and os.path.exists(args.weights)
WeightsLoadable(a, exists) == ~IsNone(a.weights) /\ exists

\* cifar10: the else branch of the load; symmetric_forms: inside the test
\* branch, if args.weights is None
WarnsNoWeights(prog, a, exists) ==
    IF prog = "cifar10" THEN ~WeightsLoadable(a, exists)
    ELSE a.testing /\ IsNone(a.weights)

\* mutant: --fool is looked at before --testing
SelectModeFoolFirst(prog, a) ==
    IF prog = "cifar10"
      THEN IF a.fool THEN "fool" ELSE IF a.testing THEN "test" ELSE "train"
      ELSE IF ~a.testing THEN "train" ELSE "probe"

\* cifar10: if args.testing / elif args.fool / else;
\* symmetric_forms: if not args.testing / else
SelectMode(prog, a) ==
    IF prog = "cifar10"
      THEN IF a.testing THEN "test" ELSE IF a.fool THEN "fool" ELSE "train"
      ELSE IF ~a.testing THEN "train" ELSE "probe"

Header(m) == IF m = "train" THEN "header_TRAIN"
             ELSE IF m = "fool" THEN "header_FOOL" ELSE "header_TEST"

IdleArgs ==
    [testing |-> FALSE, fool |-> FALSE, weights |-> None, num_routing |-> 3,
     crop_x |-> None, crop_y |-> None, max_num_samples |-> None]

\* up to the shape: save the arguments, set the learning phase, load the data,
\* cut off the training samples
MainPrepare ==
    /\ UNCHANGED notMainVars
    /\ m_pc = "start"
    /\ events' = events
         \o (IF ~args.testing THEN <<"save_args">> ELSE <<>>)
         \o (IF program = "cifar10" /\ (args.testing \/ args.fool)
               THEN <<"set_learning_phase">> ELSE <<>>)
         \o <<"load_dataset">>
         \o (IF ~IsNone(args.max_num_samples) THEN <<"cut_off">> ELSE <<>>)
    /\ IF program = "cifar10"
         THEN n_class' = cifar10_classes + none_of_the_above_class
         ELSE n_class' \in 1 .. MaxSymClasses
    /\ m_pc' = "create"
    /\ UNCHANGED <<program, args, path_exists, created, mode, layer_weights, runs>>

\* create_capsnet(shape, n_class, out_dim, num_routing); model.summary().
\* Keras rejects a shape that is not a flat tuple; what the capsule layer does
\* with num_routing < 1 is not defined, so either outcome is possible.
MainCreateModel ==
    /\ UNCHANGED notMainVars
    /\ m_pc = "create"
    /\ LET shape == CalcShape(program, args) IN
       /\ created' = Append(created,
              create_capsnet(program, shape, n_class, OutDim(program), args.num_routing))
       /\ \E ok \in BOOLEAN :
            /\ ok => IsFlatShape(shape)
            /\ ~ok => (~IsFlatShape(shape) \/ args.num_routing < 1)
            /\ IF ok
                 THEN /\ events' = events \o <<"create_capsnet", "summary">>
                      /\ m_pc' = "weights"
                 ELSE /\ events' = Append(events, "create_capsnet")
                      /\ m_pc' = "error"
    /\ layer_weights' = [l \in WeightedLayers(ModelGraphs(program)) |-> "random"]
    /\ UNCHANGED <<program, args, path_exists, n_class, mode, runs>>

\* the weights: load them (load_weights may raise on a file that does not fit),
\* or, in cifar10, warn
MainLoadWeights ==
    /\ UNCHANGED notMainVars
    /\ m_pc = "weights"
    /\ IF WeightsLoadable(args, path_exists)
         THEN \E ok \in BOOLEAN :
                IF ok
                  THEN /\ events' = events \o <<"load_weights", "loaded">>
                       /\ layer_weights' = SetWeights(created[Len(created)].models["train"],
                                                      layer_weights, "loaded")
                       /\ m_pc' = "dispatch"
                  ELSE /\ events' = Append(events, "load_weights")
                       /\ layer_weights' = layer_weights
                       /\ m_pc' = "error"
         ELSE /\ events' = events \o
                    (IF program = "cifar10" /\ WarnsNoWeights(program, args, path_exists)
                       THEN <<"warning_no_weights">> ELSE <<>>)
              /\ layer_weights' = layer_weights
              /\ m_pc' = "dispatch"
    /\ UNCHANGED <<program, args, path_exists, n_class, created, mode, runs>>

\* the mode is chosen and its header printed (symmetric_forms prints its
\* warning here, after the TEST header)
MainDispatch ==
    /\ UNCHANGED notMainVars
    /\ m_pc = "dispatch"
    /\ mode' = SelectMode(program, args)
    /\ events' = events \o <<Header(mode')>>
         \o (IF program = "symmetric_forms" /\ mode' = "probe"
                /\ WarnsNoWeights(program, args, path_exists)
               THEN <<"warning_no_weights">> ELSE <<>>)
    /\ m_pc' = mode'
    /\ UNCHANGED <<program, args, path_exists, n_class, created, layer_weights, runs>>

\* A mode's function is called; it returns, or it raises.

\* test(model=eval_model, ...)
MainRunTest ==
    /\ UNCHANGED notMainVars
    /\ m_pc = "test"
    /\ events' = Append(events, "test")
    /\ runs' = Append(runs, ModelRun(created[Len(created)].models, "eval", layer_weights))
    /\ \E ok \in BOOLEAN : m_pc' = (IF ok THEN "manipulate" ELSE "error")
    /\ UNCHANGED <<program, args, path_exists, n_class, created, mode, layer_weights>>

\* manipulate_latent(manipulate_model, ...)
MainRunManipulate ==
    /\ UNCHANGED notMainVars
    /\ m_pc = "manipulate"
    /\ events' = Append(events, "manipulate_latent")
    /\ runs' = Append(runs, ModelRun(created[Len(created)].models, "manipulate", layer_weights))
    /\ \E ok \in BOOLEAN : m_pc' = (IF ok THEN "banner" ELSE "error")
    /\ UNCHANGED <<program, args, path_exists, n_class, created, mode, layer_weights>>

\* adversarial_attack(fool_model, x_test, y_test)
MainRunFool ==
    /\ UNCHANGED notMainVars
    /\ m_pc = "fool"
    /\ events' = Append(events, "adversarial_attack")
    /\ runs' = Append(runs, ModelRun(created[Len(created)].models, "fool", layer_weights))
    /\ \E ok \in BOOLEAN : m_pc' = (IF ok THEN "banner" ELSE "error")
    /\ UNCHANGED <<program, args, path_exists, n_class, created, mode, layer_weights>>

\* train(model=model, ...)
MainRunTrain ==
    /\ UNCHANGED notMainVars
    /\ m_pc = "train"
    /\ events' = Append(events, "train")
    /\ runs' = Append(runs, ModelRun(created[Len(created)].models, "train", layer_weights))
    /\ \E ok \in BOOLEAN :
         IF ok
           THEN /\ layer_weights' = SetWeights(created[Len(created)].models["train"],
                                               layer_weights, "trained")
                /\ m_pc' = "banner"
           ELSE /\ layer_weights' = layer_weights
                /\ m_pc' = "error"
    /\ UNCHANGED <<program, args, path_exists, n_class, created, mode>>

\* show_primary_layer_per_position(model=eval_model)
MainRunProbe ==
    /\ UNCHANGED notMainVars
    /\ m_pc = "probe"
    /\ events' = Append(events, "show_primary_layer_per_position")
    /\ runs' = Append(runs, ModelRun(created[Len(created)].models, "eval", layer_weights))
    /\ \E ok \in BOOLEAN : m_pc' = (IF ok THEN "banner" ELSE "error")
    /\ UNCHANGED <<program, args, path_exists, n_class, created, mode, layer_weights>>

\* print("=" * 40 + "=======" + "=" * 40)
MainBanner ==
    /\ UNCHANGED notMainVars
    /\ m_pc = "banner"
    /\ events' = Append(events, "banner")
    /\ m_pc' = "done"
    /\ UNCHANGED <<program, args, path_exists, n_class, created, mode, layer_weights, runs>>

(***************************************************************************)
(* The capsule layer's forward pass and Mask (capsule.py is not among the  *)
(* source files: spec.md 4.1, 4.3 and 4.5 are followed).                   *)
(* Numbers: a lower capsule's output and the weights are small integers;   *)
(* s and v are fixed-point numbers with FixedPointOne standing for 1;      *)
(* logits are integers; a coupling coefficient is an exact fraction        *)
(* <<numerator, denominator>> in lowest terms.  The softmax uses base 2    *)
(* in place of e, which keeps every coefficient rational; positivity,      *)
(* monotonicity and the normalisation over j are those of the softmax.     *)
(***************************************************************************)
Lower == 1 .. NumLower
Caps(layer) == 1 .. layer.num_capsule
Dims(layer) == 1 .. layer.dim_vector

RECURSIVE Sum(_, _)
Sum(f, S) == IF S = {} THEN 0
             ELSE LET first == CHOOSE z \in S : TRUE IN f[first] + Sum(f, S \ {first})

RECURSIVE GCD(_, _)
GCD(m, n) == IF n = 0 THEN m ELSE GCD(n, m % n)

LCM(m, n) == (m \div GCD(m, n)) * n

RECURSIVE Pow2(_)
Pow2(n) == IF n <= 0 THEN 1 ELSE 2 * Pow2(n - 1)

RECURSIVE ISqrtFrom(_, _)
ISqrtFrom(n, r) == IF (r + 1) * (r + 1) > n THEN r ELSE ISqrtFrom(n, r + 1)

\* the integer part of the square root
ISqrt(n) == ISqrtFrom(n, 0)

Min(S) == CHOOSE x \in S : \A z \in S : x <= z

\* rounding to the nearest integer of n / d, d > 0
RoundDiv(n, d) == (2 * n + d) \div (2 * d)

\* the weights the layer has learnt: one pattern per seed; with seed 0 all
\* higher capsules share their weights, which makes their outputs tie
WeightPattern(seed, layer) ==
    [i \in Lower |-> [j \in Caps(layer) |-> [k \in Dims(layer) |->
        ((i + k + seed * j) % 3) - 1]]]

\* u_hat[i,j] = W[i,j] . u[i]
PredictionVectors(weights, lower, layer) ==
    [i \in Lower |-> [j \in Caps(layer) |-> [k \in Dims(layer) |->
        weights[i][j][k] * lower[i]]]]

\* b[i,j] = 0
ZeroLogits(layer) == [i \in Lower |-> [j \in Caps(layer) |-> 0]]

NoCoupling(layer) == [i \in Lower |-> [j \in Caps(layer) |-> <<0, 1>>]]

ZeroCaps(layer) == [j \in Caps(layer) |-> [k \in Dims(layer) |-> 0]]

\* mutant: the softmax is normalised over the lower-capsule axis
SoftmaxOverLower(logits, layer) ==
    [i \in Lower |-> [j \in Caps(layer) |->
       LET low == Min({logits[h][j] : h \in Lower})
           e == [h \in Lower |-> Pow2(logits[h][j] - low)]
           total == Sum(e, Lower)
           g == GCD(e[i], total)
       IN <<e[i] \div g, total \div g>>]]

\* c[i,j] = softmax_j(b[i,:]): over the higher-capsule axis
Softmax(logits, layer) ==
    [i \in Lower |->
       LET low == Min({logits[i][j] : j \in Caps(layer)})
           e == [j \in Caps(layer) |-> Pow2(logits[i][j] - low)]
           total == Sum(e, Caps(layer))
       IN [j \in Caps(layer) |->
             LET g == GCD(e[j], total) IN <<e[j] \div g, total \div g>>]]

\* s[j] = sum over i of c[i,j] * u_hat[i,j]
WeightedSum(coupling, u_hat, layer) ==
    [j \in Caps(layer) |-> [k \in Dims(layer) |->
        Sum([i \in Lower |->
               (coupling[i][j][1] * u_hat[i][j][k] * FixedPointOne)
                   \div coupling[i][j][2]],
            Lower)]]

NormSq(vec) == Sum([k \in DOMAIN vec |-> vec[k] * vec[k]], DOMAIN vec)

\* squash(s) = (|s|^2 / (1 + |s|^2)) * (s / (|s| + epsilon)), epsilon being the
\* smallest positive fixed-point number
Squash(vec) ==
    LET n2 == NormSq(vec)
        norm == ISqrt(n2)
    IN [k \in DOMAIN vec |->
          RoundDiv(FixedPointOne * n2 * vec[k],
                   (FixedPointOne * FixedPointOne + n2) * (norm + 1))]

\* u_hat[i,j] . v[j], rounded to an integer logit step
Agreement(u_hat, out, layer) ==
    [i \in Lower |-> [j \in Caps(layer) |->
        RoundDiv(Sum([k \in Dims(layer) |-> u_hat[i][j][k] * out[j][k]], Dims(layer)),
                 FixedPointOne)]]

\* Mask: with a label, the capsule of the label is kept; without one, the
\* capsule of maximal norm, the first such by index (argmax); the result is
\* flattened capsule by capsule.  Norms are compared through their squares.
ArgMaxNorm(caps) ==
    CHOOSE j \in DOMAIN caps :
        /\ \A h \in DOMAIN caps : NormSq(caps[h]) <= NormSq(caps[j])
        /\ \A h \in DOMAIN caps : h < j => NormSq(caps[h]) < NormSq(caps[j])

OneHot(j, n) == [h \in 1 .. n |-> IF h = j THEN 1 ELSE 0]

Flatten(caps, dim) ==
    [p \in 1 .. Len(caps) * dim |-> caps[((p - 1) \div dim) + 1][((p - 1) % dim) + 1]]

Mask(inputs, dim) ==
    LET caps == inputs[1]
        mask == IF Len(inputs) = 2 THEN inputs[2]
                ELSE OneHot(ArgMaxNorm(caps), Len(caps))
    IN Flatten([j \in DOMAIN caps |-> [k \in DOMAIN caps[j] |->
                   caps[j][k] * (IF j \in DOMAIN mask THEN mask[j] ELSE 0)]], dim)

\* the value of a named tensor of the graph for the sample at hand
Tensor(name, caps, label, n) ==
    IF name = "y" THEN OneHot(label, n) ELSE caps

MaskInputs(names, caps, label, n) ==
    [k \in DOMAIN names |-> Tensor(names[k], caps, label, n)]

\* a sample reaches the capsule layer: the logits start from zero
ForwardStart ==
    /\ UNCHANGED notCapsVars
    /\ c_pc = "idle"
    /\ u' \in [Lower -> (0 - MaxVal) .. MaxVal]
    /\ b' = ZeroLogits(net.caps1)
    /\ c' = NoCoupling(net.caps1)
    /\ v' = ZeroCaps(net.caps1)
    /\ r_iter' = 0
    /\ carried' = (b # ZeroLogits(net.caps1))
    /\ c_pc' = "routing"
    /\ UNCHANGED <<cfg, net, W, caps_out, mask_model, y, masked>>

\* one routing iteration: couple, sum, squash, update the agreement
RoutingIteration ==
    /\ UNCHANGED notCapsVars
    /\ c_pc = "routing"
    /\ r_iter < net.caps1.num_routing
    /\ LET layer == net.caps1
           u_hat == PredictionVectors(W, u, layer)
           coupling == Softmax(b, layer)
           out == [j \in Caps(layer) |-> Squash(WeightedSum(coupling, u_hat, layer)[j])]
           agree == Agreement(u_hat, out, layer)
       IN /\ c' = coupling
          /\ v' = out
          /\ b' = [i \in Lower |-> [j \in Caps(layer) |-> b[i][j] + agree[i][j]]]
    /\ r_iter' = r_iter + 1
    /\ UNCHANGED <<cfg, net, W, c_pc, u, carried, caps_out, mask_model, y, masked>>

\* after the fixed number of iterations the output is the final v
ForwardEnd ==
    /\ UNCHANGED notCapsVars
    /\ c_pc = "routing"
    /\ r_iter >= net.caps1.num_routing
    /\ caps_out' = v
    /\ c_pc' = "routed"
    /\ UNCHANGED <<cfg, net, W, u, b, c, v, r_iter, carried, mask_model, y, masked>>

\* eval_model: decoder(masked), masked = Mask()(caps1)
MaskEval ==
    /\ UNCHANGED notCapsVars
    /\ c_pc = "routed"
    /\ \E label \in 1 .. cfg.n_class :
         /\ y' = label
         /\ masked' = Mask(MaskInputs(net.eval_mask, caps_out, label, net.y_shape),
                           net.caps1.dim_vector)
    /\ mask_model' = "eval"
    /\ c_pc' = "returned"
    /\ UNCHANGED <<cfg, net, W, u, b, c, v, r_iter, carried, caps_out>>

\* train_model: decoder(masked_by_y), masked_by_y = Mask()([caps1, y])
MaskTrain ==
    /\ UNCHANGED notCapsVars
    /\ c_pc = "routed"
    /\ \E label \in 1 .. cfg.n_class :
         /\ y' = label
         /\ masked' = Mask(MaskInputs(net.train_mask, caps_out, label, net.y_shape),
                           net.caps1.dim_vector)
    /\ mask_model' = "train"
    /\ c_pc' = "returned"
    /\ UNCHANGED <<cfg, net, W, u, b, c, v, r_iter, carried, caps_out>>

\* the outputs are handed back; the layer is ready for the next sample
ForwardReturn ==
    /\ UNCHANGED notCapsVars
    /\ c_pc = "returned"
    /\ caps_out' = <<>>
    /\ masked' = <<>>
    /\ mask_model' = "none"
    /\ y' = 0
    /\ c_pc' = "idle"
    /\ UNCHANGED <<cfg, net, W, u, b, c, v, r_iter, carried>>

(***************************************************************************)
(* train(model, data, args): train_generator_with_augmentation and         *)
(* fit_generator, its consumer.  An image is kept by what was done to it:  *)
(* which training image it is, whether the augmentation shifted it, its    *)
(* height and width, and where a crop was taken.                           *)
(***************************************************************************)
IdleTrainArgs ==
    [crop_x |-> None, crop_y |-> None, batch_size |-> 1, shift_fraction |-> FALSE,
     epochs |-> 1]

TrainArgSets(prog) ==
    [crop_x : IF prog = "cifar10" THEN OptCrop ELSE {None},
     crop_y : IF prog = "cifar10" THEN OptCrop ELSE {None},
     batch_size : 1 .. MaxBatch,
     shift_fraction : BOOLEAN,
     epochs : 1 .. MaxEpochs]

\* the labels of the training images
TrainLabels(n) == [i \in 1 .. n |-> (i - 1) % NumLabels]

ImageSize(prog) == <<DatasetShape(prog)[1][1], DatasetShape(prog)[2][1]>>

\* an image of a batch train_datagen.flow(x, y, batch_size) hands out
FlowImage(prog, src, shifted) ==
    [src |-> src, shifted |-> shifted, size |-> ImageSize(prog), offset |-> <<0, 0>>]

\* the index batches generator.next() may draw (the order is shuffled)
FlowBatches(n, batch) == [1 .. batch -> 1 .. n]

\* where a crop of the given size may start
CropOffsets(prog, size) ==
    {off \in (0 .. MaxOffset) \X (0 .. MaxOffset) :
        /\ off[1] + size[1] <= ImageSize(prog)[1]
        /\ off[2] + size[2] <= ImageSize(prog)[2]}

\* utils.random_crop(x_batch, [crop_x, crop_y]): every image of the batch is cut
\* to the size, at a random place
random_crop(batch, size, off) ==
    [k \in DOMAIN batch |-> [batch[k] EXCEPT !.size = size, !.offset = off]]

\* if args.crop_x is not None and args.crop_y is not None
CropsBatches(prog, a) == prog = "cifar10" /\ ~IsNone(a.crop_x) /\ ~IsNone(a.crop_y)

\* mutant: the reconstruction target is cut anew, at the corner of the image
YieldItemTargetCutAnew(x_batch, y_batch) ==
    [inputs |-> <<x_batch, y_batch>>,
     targets |-> <<y_batch, [k \in DOMAIN x_batch |-> [x_batch[k] EXCEPT !.offset = <<0, 0>>]]>>]

\* yield ([x_batch, y_batch], [y_batch, x_batch])
YieldItem(x_batch, y_batch) ==
    [inputs |-> <<x_batch, y_batch>>, targets |-> <<y_batch, x_batch>>]

\* steps_per_epoch=int(y_train.shape[0] / args.batch_size), epochs=args.epochs
FitSteps(n, a) == (n \div a.batch_size) * a.epochs

\* generator = train_generator_with_augmentation(...): the generator object is
\* made; its body has not run yet
TrainStartGenerator ==
    /\ UNCHANGED notTrainVars
    /\ g_pc = "idle"
    /\ g_pc' = "suspended"
    /\ UNCHANGED <<g_program, g_args, x_train, y_train, pulls, yields, item>>

\* fit_generator pulls one item: the generator runs from where it was suspended
\* through generator.next(), the crop and the yield, and is suspended again
GeneratorNext ==
    /\ UNCHANGED notTrainVars
    /\ g_pc = "suspended"
    /\ pulls < FitSteps(Len(x_train), g_args)
    /\ \E idx \in FlowBatches(Len(x_train), g_args.batch_size) :
       \E shifted \in (IF g_args.shift_fraction THEN BOOLEAN ELSE {FALSE}) :
         LET x_flow == [k \in DOMAIN idx |-> FlowImage(g_program, x_train[idx[k]], shifted)]
             y_batch == [k \in DOMAIN idx |-> y_train[idx[k]]]
         IN IF CropsBatches(g_program, g_args)
              THEN \E off \in CropOffsets(g_program, <<Get(g_args.crop_x), Get(g_args.crop_y)>>) :
                     item' = Some(YieldItem(
                                 random_crop(x_flow, <<Get(g_args.crop_x), Get(g_args.crop_y)>>, off),
                                 y_batch))
              ELSE item' = Some(YieldItem(x_flow, y_batch))
    /\ pulls' = pulls + 1
    /\ yields' = yields + 1
    /\ UNCHANGED <<g_pc, g_program, g_args, x_train, y_train>>

\* fit_generator has had all its steps: nothing pulls any more, and the
\* generator stays suspended in its loop
FitEnd ==
    /\ UNCHANGED notTrainVars
    /\ g_pc = "suspended"
    /\ pulls >= FitSteps(Len(x_train), g_args)
    /\ g_pc' = "fitted"
    /\ UNCHANGED <<g_program, g_args, x_train, y_train, pulls, yields, item>>

(***************************************************************************)
(* manipulate_latent(model, n_class, out_dim, data, args).                 *)
(* r is a Python float, an IEEE 754 double.  A double of magnitude below   *)
(* 1/2 is kept here exactly, as a sign and the magnitude in units of       *)
(* 2^-57, the magnitude in two limbs hi * 2^28 + lo; an addition is the    *)
(* exact sum rounded to 53 significant bits, ties to even.                 *)
(***************************************************************************)
LimbBase == Pow2(28)

Double(neg, hi, lo) == [neg |-> neg, hi |-> hi, lo |-> lo]

Zero == Double(FALSE, 0, 0)

\* the doubles written -0.25, 0.25 and 0.05
MinusQuarter == Double(TRUE, Pow2(27), 0)
Quarter == Double(FALSE, Pow2(27), 0)
Step == Double(FALSE, 26843545, 161061274)

MagLess(p, q) == p.hi < q.hi \/ (p.hi = q.hi /\ p.lo < q.lo)

MagAdd(p, q) ==
    [hi |-> p.hi + q.hi + ((p.lo + q.lo) \div LimbBase), lo |-> (p.lo + q.lo) % LimbBase]

\* p - q for p >= q
MagSub(p, q) ==
    IF p.lo >= q.lo THEN [hi |-> p.hi - q.hi, lo |-> p.lo - q.lo]
    ELSE [hi |-> p.hi - q.hi - 1, lo |-> p.lo + LimbBase - q.lo]

\* the spacing of the doubles at a magnitude, in units of 2^-57
Ulp(hi) == IF hi >= Pow2(28) THEN 16
           ELSE IF hi >= Pow2(27) THEN 8
           ELSE IF hi >= Pow2(26) THEN 4
           ELSE IF hi >= Pow2(25) THEN 2
           ELSE 1

\* round to nearest, ties to even
RoundToDouble(p) ==
    LET ulp == Ulp(p.hi)
        q == p.lo \div ulp
        rest == p.lo % ulp
        up == 2 * rest > ulp \/ (2 * rest = ulp /\ q % 2 = 1)
        lo == (IF up THEN q + 1 ELSE q) * ulp
    IN [hi |-> p.hi + (lo \div LimbBase), lo |-> lo % LimbBase]

\* p + q in double arithmetic
DoubleAdd(p, q) ==
    IF p.neg = q.neg
      THEN LET m == RoundToDouble(MagAdd(p, q)) IN Double(p.neg, m.hi, m.lo)
    ELSE IF MagLess(p, q)
      THEN LET m == RoundToDouble(MagSub(q, p)) IN Double(q.neg, m.hi, m.lo)
    ELSE LET m == RoundToDouble(MagSub(p, q))
         IN Double(p.neg /\ (m.hi # 0 \/ m.lo # 0), m.hi, m.lo)

IsZero(p) == p.hi = 0 /\ p.lo = 0

DoubleLess(p, q) ==
    IF IsZero(p) /\ IsZero(q) THEN FALSE
    ELSE IF p.neg /\ ~q.neg THEN TRUE
    ELSE IF ~p.neg /\ q.neg THEN FALSE
    ELSE IF p.neg THEN MagLess(q, p)
    ELSE MagLess(p, q)

DoubleLeq(p, q) == ~DoubleLess(q, p)

ManipArgSets(prog) ==
    [manipulate : Labels,
     crop_x : IF prog = "cifar10" THEN OptCrop ELSE {None},
     crop_y : IF prog = "cifar10" THEN OptCrop ELSE {None}]

\* index = np.argmax(y_true, 1) == args.manipulate
ClassIndex(labels, class) == [i \in DOMAIN labels |-> labels[i] = class]

\* sum(index)
CountTrue(flags) == Cardinality({i \in DOMAIN flags : flags[i]})

\* high=sum(index) - 1
RandIntHigh(count) == count - 1

\* np.random.randint(low, high): the integers from low up to, not including,
\* high; none of them if low >= high, which is a ValueError
RandInt(low, high) == low .. high - 1

\* x_true[index][number]: the sample at 0-based position k among the flagged ones
NthTrue(flags, k) ==
    CHOOSE i \in DOMAIN flags :
        flags[i] /\ Cardinality({h \in 1 .. i - 1 : flags[h]}) = k

\* noise = np.zeros([1, n_class, out_dim])
ZeroNoise(dims) == [j \in 1 .. dims.n_class |-> [d \in 0 .. dims.out_dim - 1 |-> Zero]]

\* tmp = np.copy(noise); tmp[:,:,dim] = r
Perturbed(base, d, val) ==
    [j \in DOMAIN base |-> [e \in DOMAIN base[j] |-> IF e = d THEN val ELSE base[j][e]]]

\* mutant: the sweep stops before 0.25
InSweepBelow(val) == DoubleLess(val, Quarter)

\* while r <= 0.25
InSweep(val) == DoubleLeq(val, Quarter)

\* from the start to the head of the loops: the sample is picked (randint
\* raises if there is nothing to pick from) and, in cifar10, cropped; the
\* noise is made; dim and r get their first values
ManipulateSelect ==
    /\ UNCHANGED notManipVars
    /\ ml_pc = "idle"
    /\ index' = ClassIndex(ml_y_true, ml_args.manipulate)
    /\ LET numbers == RandInt(0, RandIntHigh(CountTrue(index'))) IN
       IF numbers = {}
         THEN /\ ml_pc' = "error"
              /\ UNCHANGED <<number, chosen, noise, ml_dim, ml_r>>
         ELSE /\ number' \in numbers
              /\ chosen' = [sample |-> NthTrue(index', number'),
                            cropped |-> CropsBatches(ml_program, ml_args)]
              /\ noise' = ZeroNoise(ml_dims)
              /\ ml_dim' = 0
              /\ ml_r' = MinusQuarter
              /\ ml_pc' = "loop"
    /\ UNCHANGED <<ml_program, ml_args, ml_dims, ml_y_true, x_recons>>

\* the body of the while loop: one prediction, then r += 0.05
ManipulatePredict ==
    /\ UNCHANGED notManipVars
    /\ ml_pc = "loop"
    /\ InSweep(ml_r)
    /\ x_recons' = Append(x_recons,
                          [dim |-> ml_dim, r |-> ml_r, x |-> chosen,
                           noise |-> Perturbed(noise, ml_dim, ml_r)])
    /\ ml_r' = DoubleAdd(ml_r, Step)
    /\ UNCHANGED <<ml_pc, ml_program, ml_args, ml_dims, ml_y_true, index, number,
                   chosen, noise, ml_dim>>

\* the while loop is left and the for loop goes on: r = -0.25
ManipulateNextDim ==
    /\ UNCHANGED notManipVars
    /\ ml_pc = "loop"
    /\ ~InSweep(ml_r)
    /\ ml_dim + 1 < ml_dims.out_dim
    /\ ml_dim' = ml_dim + 1
    /\ ml_r' = MinusQuarter
    /\ UNCHANGED <<ml_pc, ml_program, ml_args, ml_dims, ml_y_true, index, number,
                   chosen, noise, x_recons>>

\* both loops are left: stack_images, show, save
ManipulateStack ==
    /\ UNCHANGED notManipVars
    /\ ml_pc = "loop"
    /\ ~InSweep(ml_r)
    /\ ml_dim + 1 >= ml_dims.out_dim
    /\ ml_pc' = "stacked"
    /\ UNCHANGED <<ml_program, ml_args, ml_dims, ml_y_true, index, number, chosen,
                   noise, ml_dim, ml_r, x_recons>>

(***************************************************************************)
(* test(model, data, args).  test_batch_size is 100 (cifar10) or 32        *)
(* (symmetric_forms) in the code; the batch and the test set are scaled    *)
(* down together here, keeping both the sizes the batch divides and the    *)
(* sizes it does not.                                                      *)
(***************************************************************************)
TestArgSets(prog) ==
    [crop_x : IF prog = "cifar10" THEN OptCrop ELSE {None},
     crop_y : IF prog = "cifar10" THEN OptCrop ELSE {None}]

\* the labels of the test samples
TestLabels(n) == [i \in 1 .. n |-> (i - 1) % NumLabels]

\* steps=len(x_true) // test_batch_size
PredictSteps(n, batch) == n \div batch

\* test_datagen.flow(x, batch_size, shuffle=False): the k-th batch (from 0) is
\* the next batch_size samples in order; the last batch of a pass over the
\* data is shorter when batch_size does not divide the number of samples
FlowBatch(n, batch, k) ==
    LET per_pass == (n + batch - 1) \div batch
        first == (k % per_pass) * batch
        last == IF first + batch < n THEN first + batch ELSE n
    IN [h \in 1 .. last - first |-> first + h - 1]

\* an image of x_augmented: which test sample (from 0), and whether it was cropped
TestImage(src, cropped) == [src |-> src, cropped |-> cropped]

\* generator = test_generator_with_augmentation(...); predict_generator is
\* called with its number of steps
TestStart ==
    /\ UNCHANGED notTestVars
    /\ t_pc = "idle"
    /\ steps' = PredictSteps(Len(t_y_true), test_batch_size)
    /\ t_pc' = "predicting"
    /\ UNCHANGED <<t_program, t_args, t_y_true, test_batch_size, pulled, x_augmented,
                   y_pred, t_i, saved>>

\* predict_generator takes one batch: the generator draws it, crops it (cifar10
\* with both crops), caches it in x_augmented and yields it; the model predicts
\* a class for each of its images
TestGeneratorNext ==
    /\ UNCHANGED notTestVars
    /\ t_pc = "predicting"
    /\ pulled < steps
    /\ LET batch == FlowBatch(Len(t_y_true), test_batch_size, pulled) IN
       /\ x_augmented' = x_augmented \o
              [h \in DOMAIN batch |-> TestImage(batch[h], CropsBatches(t_program, t_args))]
       /\ \E predicted \in [DOMAIN batch -> Labels] : y_pred' = y_pred \o predicted
    /\ pulled' = pulled + 1
    /\ UNCHANGED <<t_pc, t_program, t_args, t_y_true, test_batch_size, steps, t_i, saved>>

\* predict_generator returns (with no step taken it has no outputs to return
\* and the unpacking fails); the metrics are computed, which scikit-learn
\* refuses for y_true and y_pred of different lengths; the stacked image is
\* saved
TestMetrics ==
    /\ UNCHANGED notTestVars
    /\ t_pc = "predicting"
    /\ pulled >= steps
    /\ t_pc' = IF steps = 0 \/ Len(y_pred) # Len(t_y_true) THEN "ValueError" ELSE "comparing"
    /\ UNCHANGED <<t_program, t_args, t_y_true, test_batch_size, steps, pulled,
                   x_augmented, y_pred, t_i, saved>>

\* for i in range(len(x_true)): a sample whose prediction differs from its
\* label has its augmented image saved as wrongly_classified_i
TestCompare ==
    /\ UNCHANGED notTestVars
    /\ t_pc = "comparing"
    /\ t_i < Len(t_y_true)
    /\ IF t_i >= Len(y_pred)
         THEN /\ t_pc' = "IndexError"
              /\ UNCHANGED <<t_i, saved>>
       ELSE IF t_y_true[t_i + 1] = y_pred[t_i + 1]
         THEN /\ t_i' = t_i + 1
              /\ UNCHANGED <<t_pc, saved>>
       ELSE IF t_i >= Len(x_augmented)
         THEN /\ t_pc' = "IndexError"
              /\ UNCHANGED <<t_i, saved>>
       ELSE /\ saved' = Append(saved, [i |-> t_i, image |-> x_augmented[t_i + 1]])
            /\ t_i' = t_i + 1
            /\ t_pc' = t_pc
    /\ UNCHANGED <<t_program, t_args, t_y_true, test_batch_size, steps, pulled,
                   x_augmented, y_pred>>

\* the loop is over: test returns
TestReturn ==
    /\ UNCHANGED notTestVars
    /\ t_pc = "comparing"
    /\ t_i >= Len(t_y_true)
    /\ t_pc' = "done"
    /\ UNCHANGED <<t_program, t_args, t_y_true, test_batch_size, steps, pulled,
                   x_augmented, y_pred, t_i, saved>>

(***************************************************************************)
(* Specifications                                                          *)
(***************************************************************************)
\* adversarial_attack is entered; main is not running
AttackInit ==
    /\ a_pc = "loop"
    /\ y_test \in SeqsUpTo(Labels, MaxTestLen)
    /\ max_num_attacks \in 0 .. MaxNumAttacks
    /\ epsilon \in 1 .. MaxEpsilon
    /\ debug \in BOOLEAN
    /\ test_id = 0
    /\ num_attacks = 0
    /\ num_success_attacks = 0
    /\ samples = <<>>
    /\ attack_calls = <<>>
    /\ shown = <<>>
    /\ report = NoReport
    /\ program = "cifar10"
    /\ args = IdleArgs
    /\ path_exists = FALSE
    /\ m_pc = "idle"
    /\ n_class = 0
    /\ created = <<>>
    /\ mode = "none"
    /\ events = <<>>
    /\ layer_weights = <<>>
    /\ runs = <<>>
    /\ cfg = [n_class |-> 0, out_dim |-> 0, num_routing |-> 0]
    /\ net = create_capsnet("cifar10", DatasetShape("cifar10"), 0, 0, 0)
    /\ W = <<>>
    /\ c_pc = "off"
    /\ u = <<>>
    /\ b = <<>>
    /\ c = <<>>
    /\ v = <<>>
    /\ r_iter = 0
    /\ carried = FALSE
    /\ caps_out = <<>>
    /\ mask_model = "none"
    /\ y = 0
    /\ masked = <<>>
    /\ g_pc = "off"
    /\ g_program = "cifar10"
    /\ g_args = IdleTrainArgs
    /\ x_train = <<>>
    /\ y_train = <<>>
    /\ pulls = 0
    /\ yields = 0
    /\ item = <<>>
    /\ ml_pc = "off"
    /\ ml_program = "cifar10"
    /\ ml_args = [manipulate |-> 0, crop_x |-> None, crop_y |-> None]
    /\ ml_dims = [n_class |-> 0, out_dim |-> 0]
    /\ ml_y_true = <<>>
    /\ index = <<>>
    /\ number = 0
    /\ chosen = [sample |-> 0, cropped |-> FALSE]
    /\ noise = <<>>
    /\ ml_dim = 0
    /\ ml_r = [neg |-> FALSE, hi |-> 0, lo |-> 0]
    /\ x_recons = <<>>
    /\ t_pc = "off"
    /\ t_program = "cifar10"
    /\ t_args = [crop_x |-> None, crop_y |-> None]
    /\ t_y_true = <<>>
    /\ test_batch_size = 1
    /\ steps = 0
    /\ pulled = 0
    /\ x_augmented = <<>>
    /\ y_pred = <<>>
    /\ t_i = 0
    /\ saved = <<>>

\* main is entered with a parsed command line; no attack is running
MainInit ==
    /\ program \in Programs
    /\ args \in ArgSets(program)
    /\ path_exists \in (IF IsNone(args.weights) THEN {FALSE} ELSE BOOLEAN)
    /\ m_pc = "start"
    /\ n_class = 0
    /\ created = <<>>
    /\ mode = "none"
    /\ events = <<>>
    /\ layer_weights = <<>>
    /\ runs = <<>>
    /\ a_pc = "idle"
    /\ y_test = <<>>
    /\ max_num_attacks = 0
    /\ epsilon = 1
    /\ debug = FALSE
    /\ test_id = 0
    /\ num_attacks = 0
    /\ num_success_attacks = 0
    /\ samples = <<>>
    /\ attack_calls = <<>>
    /\ shown = <<>>
    /\ report = NoReport
    /\ cfg = [n_class |-> 0, out_dim |-> 0, num_routing |-> 0]
    /\ net = create_capsnet("cifar10", DatasetShape("cifar10"), 0, 0, 0)
    /\ W = <<>>
    /\ c_pc = "off"
    /\ u = <<>>
    /\ b = <<>>
    /\ c = <<>>
    /\ v = <<>>
    /\ r_iter = 0
    /\ carried = FALSE
    /\ caps_out = <<>>
    /\ mask_model = "none"
    /\ y = 0
    /\ masked = <<>>
    /\ g_pc = "off"
    /\ g_program = "cifar10"
    /\ g_args = IdleTrainArgs
    /\ x_train = <<>>
    /\ y_train = <<>>
    /\ pulls = 0
    /\ yields = 0
    /\ item = <<>>
    /\ ml_pc = "off"
    /\ ml_program = "cifar10"
    /\ ml_args = [manipulate |-> 0, crop_x |-> None, crop_y |-> None]
    /\ ml_dims = [n_class |-> 0, out_dim |-> 0]
    /\ ml_y_true = <<>>
    /\ index = <<>>
    /\ number = 0
    /\ chosen = [sample |-> 0, cropped |-> FALSE]
    /\ noise = <<>>
    /\ ml_dim = 0
    /\ ml_r = [neg |-> FALSE, hi |-> 0, lo |-> 0]
    /\ x_recons = <<>>
    /\ t_pc = "off"
    /\ t_program = "cifar10"
    /\ t_args = [crop_x |-> None, crop_y |-> None]
    /\ t_y_true = <<>>
    /\ test_batch_size = 1
    /\ steps = 0
    /\ pulled = 0
    /\ x_augmented = <<>>
    /\ y_pred = <<>>
    /\ t_i = 0
    /\ saved = <<>>

AttackNext ==
    \/ AttackIndexError
    \/ AttackSkip
    \/ AttackNotFound
    \/ AttackFound
    \/ AttackReport

SpecAttack == AttackInit /\ [][AttackNext]_vars

MainNext ==
    \/ MainPrepare
    \/ MainCreateModel
    \/ MainLoadWeights
    \/ MainDispatch
    \/ MainRunTest
    \/ MainRunManipulate
    \/ MainRunFool
    \/ MainRunTrain
    \/ MainRunProbe
    \/ MainBanner

SpecMain == MainInit /\ [][MainNext]_vars

\* a network has been built by create_capsnet; nothing else is running
CapsInit ==
    /\ cfg \in [n_class : 2 .. MaxClasses, out_dim : 1 .. MaxDim,
                num_routing : 1 .. MaxRouting]
    /\ net = create_capsnet("cifar10", DatasetShape("cifar10"),
                            cfg.n_class, cfg.out_dim, cfg.num_routing)
    /\ \E seed \in 0 .. MaxSeed : W = WeightPattern(seed, net.caps1)
    /\ c_pc = "idle"
    /\ u = [i \in Lower |-> 0]
    /\ b = ZeroLogits(net.caps1)
    /\ c = NoCoupling(net.caps1)
    /\ v = ZeroCaps(net.caps1)
    /\ r_iter = 0
    /\ carried = FALSE
    /\ caps_out = <<>>
    /\ mask_model = "none"
    /\ y = 0
    /\ masked = <<>>
    /\ a_pc = "idle"
    /\ y_test = <<>>
    /\ max_num_attacks = 0
    /\ epsilon = 1
    /\ debug = FALSE
    /\ test_id = 0
    /\ num_attacks = 0
    /\ num_success_attacks = 0
    /\ samples = <<>>
    /\ attack_calls = <<>>
    /\ shown = <<>>
    /\ report = NoReport
    /\ program = "cifar10"
    /\ args = IdleArgs
    /\ path_exists = FALSE
    /\ m_pc = "idle"
    /\ n_class = 0
    /\ created = <<>>
    /\ mode = "none"
    /\ events = <<>>
    /\ layer_weights = <<>>
    /\ runs = <<>>
    /\ g_pc = "off"
    /\ g_program = "cifar10"
    /\ g_args = IdleTrainArgs
    /\ x_train = <<>>
    /\ y_train = <<>>
    /\ pulls = 0
    /\ yields = 0
    /\ item = <<>>
    /\ ml_pc = "off"
    /\ ml_program = "cifar10"
    /\ ml_args = [manipulate |-> 0, crop_x |-> None, crop_y |-> None]
    /\ ml_dims = [n_class |-> 0, out_dim |-> 0]
    /\ ml_y_true = <<>>
    /\ index = <<>>
    /\ number = 0
    /\ chosen = [sample |-> 0, cropped |-> FALSE]
    /\ noise = <<>>
    /\ ml_dim = 0
    /\ ml_r = [neg |-> FALSE, hi |-> 0, lo |-> 0]
    /\ x_recons = <<>>
    /\ t_pc = "off"
    /\ t_program = "cifar10"
    /\ t_args = [crop_x |-> None, crop_y |-> None]
    /\ t_y_true = <<>>
    /\ test_batch_size = 1
    /\ steps = 0
    /\ pulled = 0
    /\ x_augmented = <<>>
    /\ y_pred = <<>>
    /\ t_i = 0
    /\ saved = <<>>

CapsNext ==
    \/ ForwardStart
    \/ RoutingIteration
    \/ ForwardEnd
    \/ MaskEval
    \/ MaskTrain
    \/ ForwardReturn

SpecCapsNet == CapsInit /\ [][CapsNext]_vars

\* train() has been called; the generator is not made yet
TrainInit ==
    /\ g_pc = "idle"
    /\ g_program \in Programs
    /\ g_args \in TrainArgSets(g_program)
    /\ x_train = [i \in 1 .. MaxTrainLen |-> i]
    /\ y_train = TrainLabels(MaxTrainLen)
    /\ pulls = 0
    /\ yields = 0
    /\ item = None
    /\ a_pc = "idle"
    /\ y_test = <<>>
    /\ max_num_attacks = 0
    /\ epsilon = 1
    /\ debug = FALSE
    /\ test_id = 0
    /\ num_attacks = 0
    /\ num_success_attacks = 0
    /\ samples = <<>>
    /\ attack_calls = <<>>
    /\ shown = <<>>
    /\ report = NoReport
    /\ program = "cifar10"
    /\ args = IdleArgs
    /\ path_exists = FALSE
    /\ m_pc = "idle"
    /\ n_class = 0
    /\ created = <<>>
    /\ mode = "none"
    /\ events = <<>>
    /\ layer_weights = <<>>
    /\ runs = <<>>
    /\ cfg = [n_class |-> 0, out_dim |-> 0, num_routing |-> 0]
    /\ net = create_capsnet("cifar10", DatasetShape("cifar10"), 0, 0, 0)
    /\ W = <<>>
    /\ c_pc = "off"
    /\ u = <<>>
    /\ b = <<>>
    /\ c = <<>>
    /\ v = <<>>
    /\ r_iter = 0
    /\ carried = FALSE
    /\ caps_out = <<>>
    /\ mask_model = "none"
    /\ y = 0
    /\ masked = <<>>
    /\ ml_pc = "off"
    /\ ml_program = "cifar10"
    /\ ml_args = [manipulate |-> 0, crop_x |-> None, crop_y |-> None]
    /\ ml_dims = [n_class |-> 0, out_dim |-> 0]
    /\ ml_y_true = <<>>
    /\ index = <<>>
    /\ number = 0
    /\ chosen = [sample |-> 0, cropped |-> FALSE]
    /\ noise = <<>>
    /\ ml_dim = 0
    /\ ml_r = [neg |-> FALSE, hi |-> 0, lo |-> 0]
    /\ x_recons = <<>>
    /\ t_pc = "off"
    /\ t_program = "cifar10"
    /\ t_args = [crop_x |-> None, crop_y |-> None]
    /\ t_y_true = <<>>
    /\ test_batch_size = 1
    /\ steps = 0
    /\ pulled = 0
    /\ x_augmented = <<>>
    /\ y_pred = <<>>
    /\ t_i = 0
    /\ saved = <<>>

TrainNext ==
    \/ TrainStartGenerator
    \/ GeneratorNext
    \/ FitEnd

SpecTrain == TrainInit /\ [][TrainNext]_vars

\* manipulate_latent has been called
ManipInit ==
    /\ ml_pc = "idle"
    /\ ml_program \in Programs
    /\ ml_args \in ManipArgSets(ml_program)
    /\ ml_dims \in [n_class : {NumLabels}, out_dim : 1 .. MaxDim]
    /\ ml_y_true \in SeqsUpTo(Labels, MaxManipLen) \ {<<>>}
    /\ index = <<>>
    /\ number = 0
    /\ chosen = [sample |-> 0, cropped |-> FALSE]
    /\ noise = <<>>
    /\ ml_dim = 0
    /\ ml_r = Zero
    /\ x_recons = <<>>
    /\ a_pc = "idle"
    /\ y_test = <<>>
    /\ max_num_attacks = 0
    /\ epsilon = 1
    /\ debug = FALSE
    /\ test_id = 0
    /\ num_attacks = 0
    /\ num_success_attacks = 0
    /\ samples = <<>>
    /\ attack_calls = <<>>
    /\ shown = <<>>
    /\ report = NoReport
    /\ program = "cifar10"
    /\ args = IdleArgs
    /\ path_exists = FALSE
    /\ m_pc = "idle"
    /\ n_class = 0
    /\ created = <<>>
    /\ mode = "none"
    /\ events = <<>>
    /\ layer_weights = <<>>
    /\ runs = <<>>
    /\ cfg = [n_class |-> 0, out_dim |-> 0, num_routing |-> 0]
    /\ net = create_capsnet("cifar10", DatasetShape("cifar10"), 0, 0, 0)
    /\ W = <<>>
    /\ c_pc = "off"
    /\ u = <<>>
    /\ b = <<>>
    /\ c = <<>>
    /\ v = <<>>
    /\ r_iter = 0
    /\ carried = FALSE
    /\ caps_out = <<>>
    /\ mask_model = "none"
    /\ y = 0
    /\ masked = <<>>
    /\ g_pc = "off"
    /\ g_program = "cifar10"
    /\ g_args = IdleTrainArgs
    /\ x_train = <<>>
    /\ y_train = <<>>
    /\ pulls = 0
    /\ yields = 0
    /\ item = <<>>
    /\ t_pc = "off"
    /\ t_program = "cifar10"
    /\ t_args = [crop_x |-> None, crop_y |-> None]
    /\ t_y_true = <<>>
    /\ test_batch_size = 1
    /\ steps = 0
    /\ pulled = 0
    /\ x_augmented = <<>>
    /\ y_pred = <<>>
    /\ t_i = 0
    /\ saved = <<>>

ManipNext ==
    \/ ManipulateSelect
    \/ ManipulatePredict
    \/ ManipulateNextDim
    \/ ManipulateStack

SpecManipulate == ManipInit /\ [][ManipNext]_vars

\* test() has been called
TestInit ==
    /\ t_pc = "idle"
    /\ t_program \in Programs
    /\ t_args \in TestArgSets(t_program)
    /\ \E n \in 1 .. MaxTestN : t_y_true = TestLabels(n)
    /\ test_batch_size \in 1 .. MaxTestBatch
    /\ steps = 0
    /\ pulled = 0
    /\ x_augmented = <<>>
    /\ y_pred = <<>>
    /\ t_i = 0
    /\ saved = <<>>
    /\ a_pc = "idle"
    /\ y_test = <<>>
    /\ max_num_attacks = 0
    /\ epsilon = 1
    /\ debug = FALSE
    /\ test_id = 0
    /\ num_attacks = 0
    /\ num_success_attacks = 0
    /\ samples = <<>>
    /\ attack_calls = <<>>
    /\ shown = <<>>
    /\ report = NoReport
    /\ program = "cifar10"
    /\ args = IdleArgs
    /\ path_exists = FALSE
    /\ m_pc = "idle"
    /\ n_class = 0
    /\ created = <<>>
    /\ mode = "none"
    /\ events = <<>>
    /\ layer_weights = <<>>
    /\ runs = <<>>
    /\ cfg = [n_class |-> 0, out_dim |-> 0, num_routing |-> 0]
    /\ net = create_capsnet("cifar10", DatasetShape("cifar10"), 0, 0, 0)
    /\ W = <<>>
    /\ c_pc = "off"
    /\ u = <<>>
    /\ b = <<>>
    /\ c = <<>>
    /\ v = <<>>
    /\ r_iter = 0
    /\ carried = FALSE
    /\ caps_out = <<>>
    /\ mask_model = "none"
    /\ y = 0
    /\ masked = <<>>
    /\ g_pc = "off"
    /\ g_program = "cifar10"
    /\ g_args = IdleTrainArgs
    /\ x_train = <<>>
    /\ y_train = <<>>
    /\ pulls = 0
    /\ yields = 0
    /\ item = <<>>
    /\ ml_pc = "off"
    /\ ml_program = "cifar10"
    /\ ml_args = [manipulate |-> 0, crop_x |-> None, crop_y |-> None]
    /\ ml_dims = [n_class |-> 0, out_dim |-> 0]
    /\ ml_y_true = <<>>
    /\ index = <<>>
    /\ number = 0
    /\ chosen = [sample |-> 0, cropped |-> FALSE]
    /\ noise = <<>>
    /\ ml_dim = 0
    /\ ml_r = [neg |-> FALSE, hi |-> 0, lo |-> 0]
    /\ x_recons = <<>>

TestNext ==
    \/ TestStart
    \/ TestGeneratorNext
    \/ TestMetrics
    \/ TestCompare
    \/ TestReturn

SpecTest == TestInit /\ [][TestNext]_vars

(***************************************************************************)
(* Properties of main                                                      *)
(***************************************************************************)
Printed(e) == \E k \in DOMAIN events : events[k] = e
TimesPrinted(e) == Cardinality({k \in DOMAIN events : events[k] = e})
Before(e, f) ==
    \A k \in DOMAIN events : events[k] = f => \E h \in 1 .. k - 1 : events[h] = e

TestOrFoolSelected == args.testing \/ args.fool
NoWeightsFile == IsNone(args.weights) \/ ~path_exists

\* C5: in both entry points, a run in test or fool mode for which no weights
\* file is there (--weights absent, or naming a path that does not exist)
\* attempts no load, and has printed the warning by the time it runs the
\* selected mode.
C5_MissingWeightsWarned ==
    (m_pc # "idle" /\ TestOrFoolSelected /\ NoWeightsFile) =>
        /\ ~Printed("load_weights")
        /\ mode # "none" => Printed("warning_no_weights")

\* C6: create_capsnet (and so CapsuleLayer) is never called with
\* num_routing <= 0.
C6_RoutingValidated ==
    \A k \in DOMAIN created : created[k].caps1.num_routing >= 1

ModeEvents == {"test", "manipulate_latent", "adversarial_attack", "train",
               "show_primary_layer_per_position"}
Headers == {"header_TEST", "header_FOOL", "header_TRAIN"}

\* C7: cifar10 main enters exactly one of the modes test (test, then
\* manipulate_latent), fool (adversarial_attack) and train: test if --testing
\* is set, else fool if --fool is set, else train; nothing of another mode is
\* ever run.  When the mode's work has returned the banner is printed next,
\* and the banner is never printed before the mode's work is complete.
C7_OneModeThenBanner ==
    /\ [](program = "cifar10" /\ m_pc # "idle" =>
          /\ mode = "none" =>
               /\ \A e \in ModeEvents \cup Headers : ~Printed(e)
               /\ m_pc \in {"start", "create", "weights", "dispatch", "error"}
          /\ mode # "none" =>
               /\ args.testing => mode = "test"
               /\ (~args.testing /\ args.fool) => mode = "fool"
               /\ (~args.testing /\ ~args.fool) => mode = "train"
               /\ \A h \in Headers : TimesPrinted(h) = (IF h = Header(mode) THEN 1 ELSE 0)
               /\ \A e \in ModeEvents : TimesPrinted(e) <= 1
               /\ mode = "test" =>
                    /\ \A e \in ModeEvents \ {"test", "manipulate_latent"} : ~Printed(e)
                    /\ Before("test", "manipulate_latent")
               /\ mode = "fool" =>
                    \A e \in ModeEvents \ {"adversarial_attack"} : ~Printed(e)
               /\ mode = "train" => \A e \in ModeEvents \ {"train"} : ~Printed(e)
               /\ \A e \in ModeEvents : Before(Header(mode), e)
          /\ Printed("banner") <=> m_pc = "done"
          /\ Printed("banner") =>
               /\ events[Len(events)] = "banner"
               /\ TimesPrinted("banner") = 1
               /\ mode = "test" => Printed("test") /\ Printed("manipulate_latent")
               /\ mode = "fool" => Printed("adversarial_attack")
               /\ mode = "train" => Printed("train"))
    /\ [][ (program = "cifar10" /\ m_pc = "banner") =>
             (m_pc' = "done" /\ events' = Append(events, "banner")) ]_vars
    /\ [][ (program = "cifar10" /\ m_pc' = "banner") =>
             \/ (mode = "test" /\ m_pc = "manipulate")
             \/ (mode = "fool" /\ m_pc = "fool")
             \/ (mode = "train" /\ m_pc = "train")
             \/ m_pc = "banner" ]_vars

C7_Witness ==
    /\ program = "cifar10"
    /\ args.testing
    /\ args.fool
    /\ m_pc = "done"
    /\ mode = "test"
    /\ Printed("manipulate_latent")
    /\ Printed("banner")
    /\ mode = "test"
    /\ Printed("test")
    /\ Printed("manipulate_latent")
    /\ Printed("banner")

(***************************************************************************)
(* Properties of the capsule layer and Mask                                *)
(***************************************************************************)
Routed == c_pc \in {"routed", "returned"}

\* C8: routing runs exactly num_routing iterations, the logits start from
\* zero in every forward pass (nothing is carried over from the previous
\* one), and the layer's output is the v of the final iteration.
C8_FixedIterationsFromZero ==
    /\ c_pc = "routing" => r_iter <= cfg.num_routing
    /\ c_pc = "routing" /\ r_iter = 0 => b = ZeroLogits([num_capsule |-> cfg.n_class])
    /\ Routed => r_iter = cfg.num_routing
    /\ Routed => caps_out = v
    /\ Routed => DOMAIN caps_out = 1 .. cfg.n_class
    /\ Routed => \A j \in 1 .. cfg.n_class : DOMAIN caps_out[j] = 1 .. cfg.out_dim

\* a forward pass that began with logits left over from the previous pass
\* has finished its (more than one) iterations
C8_Witness ==
    /\ c_pc = "routed"
    /\ carried
    /\ cfg.num_routing >= 2
    /\ b # ZeroLogits(net.caps1)

RECURSIVE LcmDenFrom(_, _)
LcmDenFrom(fracs, n) == IF n = 0 THEN 1 ELSE LCM(fracs[n][2], LcmDenFrom(fracs, n - 1))

\* a common denominator of a sequence of fractions
LcmDen(fracs) == LcmDenFrom(fracs, Len(fracs))

Uniform == <<1, cfg.n_class>>

\* C9: in every iteration the coupling coefficients of a lower capsule are
\* nonnegative and sum to 1 over the higher capsules, and in the first
\* iteration each of them equals 1 / num_classes.
C9_CouplingIsDistribution ==
    c_pc \in {"routing", "routed", "returned"} /\ r_iter >= 1 =>
        \A i \in Lower :
            /\ DOMAIN c[i] = 1 .. cfg.n_class
            /\ \A j \in DOMAIN c[i] : c[i][j][1] >= 0 /\ c[i][j][2] > 0
            /\ Sum([j \in DOMAIN c[i] |-> c[i][j][1] * (LcmDen(c[i]) \div c[i][j][2])],
                   DOMAIN c[i]) = LcmDen(c[i])
            /\ r_iter = 1 => \A j \in DOMAIN c[i] : c[i][j] = Uniform

\* a second iteration has run with coefficients that are no longer uniform
C9_Witness ==
    /\ c_pc = "routing"
    /\ r_iter = 2
    /\ \E i \in Lower : \E j \in DOMAIN c[i] : c[i][j] # Uniform

Winner ==
    CHOOSE j \in 1 .. cfg.n_class :
        /\ \A h \in 1 .. cfg.n_class : NormSq(caps_out[h]) <= NormSq(caps_out[j])
        /\ \A h \in 1 .. j - 1 : NormSq(caps_out[h]) < NormSq(caps_out[j])

Block(j) == ((j - 1) * cfg.out_dim + 1) .. (j * cfg.out_dim)

\* C10: without a label, Mask keeps the capsule of maximal norm (the first
\* one by index on a tie) and zeroes the others; the result is a flat vector
\* of num_classes * out_dim entries.
C10_MaskKeepsArgMax ==
    c_pc = "returned" /\ mask_model = "eval" =>
        /\ DOMAIN masked = 1 .. (cfg.n_class * cfg.out_dim)
        /\ \A j \in 1 .. cfg.n_class : \A p \in Block(j) :
               masked[p] = IF j = Winner
                           THEN caps_out[j][p - (j - 1) * cfg.out_dim]
                           ELSE 0

\* two capsules tie on a nonzero maximal norm, the label names another capsule
\* than the first of them, and the first one is the one kept
C10_Witness ==
    /\ c_pc = "returned"
    /\ mask_model = "eval"
    /\ NormSq(caps_out[Winner]) > 0
    /\ \E h \in 1 .. cfg.n_class : h # Winner /\ NormSq(caps_out[h]) = NormSq(caps_out[Winner])
    /\ y # Winner
    /\ \E p \in Block(Winner) : masked[p] # 0


(***************************************************************************)
(* Properties of adversarial_attack                                        *)
(***************************************************************************)

\* The three classes of an examined sample, read off what was observed of it.
Skipped(e) == e.y_prediction # e.y_true
Succeeded(e) == e.attacked /\ e.found /\ e.y_adversarial # e.y_true
Failed(e) == e.attacked /\ ~Succeeded(e)

NumSkipped == Cardinality({i \in DOMAIN samples : Skipped(samples[i])})
NumSucceeded == Cardinality({i \in DOMAIN samples : Succeeded(samples[i])})
NumFailed == Cardinality({i \in DOMAIN samples : Failed(samples[i])})

BoolToNat(x) == IF x THEN 1 ELSE 0

LoopEnded == a_pc \in {"done", "ZeroDivisionError"}

\* C1: every examined sample is in exactly one of the classes skipped,
\* succeeded, failed; 0 <= num_success_attacks <= num_attacks <= samples
\* examined <= max_num_attacks in every reachable state; num_attacks counts
\* the succeeded and failed samples; when the loop has ended the three classes
\* add up to max_num_attacks.
C1_CountsPartition ==
    /\ \A i \in DOMAIN samples :
         BoolToNat(Skipped(samples[i])) + BoolToNat(Succeeded(samples[i]))
           + BoolToNat(Failed(samples[i])) = 1
    /\ 0 <= num_success_attacks
    /\ num_success_attacks <= num_attacks
    /\ num_attacks <= Len(samples)
    /\ Len(samples) = test_id
    /\ Len(samples) <= max_num_attacks
    /\ num_success_attacks = NumSucceeded
    /\ num_attacks = NumSucceeded + NumFailed
    /\ LoopEnded =>
         NumSkipped + NumSucceeded + NumFailed = max_num_attacks

C1_Witness ==
    /\ a_pc = "done"
    /\ NumSkipped >= 1
    /\ NumSucceeded >= 1
    /\ NumFailed >= 1

\* The sample examined by a step, if the step examined one.
Examined == Len(samples') = Len(samples) + 1
LastSample == samples'[Len(samples')]

\* C2: a loop iteration increments num_success_attacks (by one) if and only
\* if the sample was attacked, the attack returned an adversarial input and
\* the class predicted for it differs from the true label; an attack that
\* returns None raises num_attacks and leaves num_success_attacks alone.
C2_SuccessIff ==
    [][ /\ num_success_attacks' \in {num_success_attacks, num_success_attacks + 1}
        /\ (num_success_attacks' = num_success_attacks + 1) <=>
             (/\ Examined
              /\ LastSample.attacked
              /\ LastSample.found
              /\ LastSample.y_adversarial # LastSample.y_true)
        /\ (Examined /\ LastSample.attacked /\ ~LastSample.found) =>
             (/\ num_attacks' = num_attacks + 1
              /\ num_success_attacks' = num_success_attacks) ]_vars

C2_Witness ==
    /\ num_success_attacks >= 1
    /\ \E i \in DOMAIN samples : samples[i].attacked /\ ~samples[i].found
    /\ \E i \in DOMAIN samples :
         samples[i].found /\ samples[i].y_adversarial = samples[i].y_true

CallsFor(id) == {k \in DOMAIN attack_calls : attack_calls[k].id = id}

\* C3: a sample whose unperturbed prediction differs from its true label is
\* skipped, i.e. the attack is never called for it and the iteration leaves
\* num_attacks and num_success_attacks unchanged; every examined sample that
\* is classified correctly is attacked exactly once, with the epsilon given
\* to adversarial_attack.
C3_SkipOrAttackOnce ==
    /\ [](\A i \in DOMAIN samples :
            LET e == samples[i] IN
            /\ e.y_prediction # e.y_true => CallsFor(e.id) = {}
            /\ e.y_prediction = e.y_true =>
                 /\ Cardinality(CallsFor(e.id)) = 1
                 /\ \A k \in CallsFor(e.id) :
                      /\ attack_calls[k].epsilons = <<epsilon>>
                      /\ attack_calls[k].label = e.y_true)
    /\ [][ (Examined /\ LastSample.y_prediction # LastSample.y_true) =>
             (/\ num_attacks' = num_attacks
              /\ num_success_attacks' = num_success_attacks
              /\ attack_calls' = attack_calls) ]_vars

C3_Witness ==
    /\ \E i \in DOMAIN samples : samples[i].y_prediction # samples[i].y_true
    /\ Len(attack_calls) >= 2
    /\ Len(samples) > Len(attack_calls)

\* C4: when the loop ends with num_attacks = 0 the warning is printed and no
\* success rate is computed; the division num_success_attacks / num_attacks
\* is evaluated only with num_attacks > 0, so no ZeroDivisionError is
\* reachable.
C4_NoDivisionByZero ==
    /\ a_pc # "ZeroDivisionError"
    /\ (a_pc = "done" /\ num_attacks = 0) => report.kind = "warning"
    /\ (a_pc = "done" /\ num_attacks > 0) => report.kind = "results"
    /\ report.kind = "results" =>
         /\ num_attacks > 0
         /\ report.den = num_attacks
         /\ report.num = num_success_attacks * 100
    /\ report.kind \in {"none", "warning", "results"}

C4_Witness ==
    /\ a_pc = "done"
    /\ num_attacks = 0
    /\ Len(samples) >= 2
    /\ report.kind = "warning"

(***************************************************************************)
(* Properties of train_generator_with_augmentation                         *)
(***************************************************************************)
Yielded == Get(item)

\* C11: the training generator yields exactly one item per pull and is never
\* exhausted; in every item the reconstruction target is the very image batch
\* given as the model's input (augmented and, in cifar10 with both crops set,
\* cropped), and the classification target is the very label batch given as
\* the mask input; every label is the label of its image.
C11_TargetsAreInputs ==
    /\ g_pc \in {"off", "idle", "suspended", "fitted"}
    /\ yields = pulls
    /\ (pulls > 0) = ~IsNone(item)
    /\ ~IsNone(item) =>
         /\ Yielded.targets[2] = Yielded.inputs[1]
         /\ Yielded.targets[1] = Yielded.inputs[2]
         /\ Len(Yielded.inputs[1]) = g_args.batch_size
         /\ Len(Yielded.inputs[2]) = g_args.batch_size
         /\ \A k \in 1 .. g_args.batch_size :
              /\ Yielded.inputs[2][k] = y_train[Yielded.inputs[1][k].src]
              /\ Yielded.inputs[1][k].size =
                   IF CropsBatches(g_program, g_args)
                     THEN <<Get(g_args.crop_x), Get(g_args.crop_y)>>
                     ELSE ImageSize(g_program)
              /\ Yielded.targets[2][k].offset = Yielded.inputs[1][k].offset

\* cifar10 with both crops: a second item has been pulled, its images shifted
\* and cropped away from the corner, with two different labels in the batch
C11_Witness ==
    /\ g_program = "cifar10"
    /\ CropsBatches(g_program, g_args)
    /\ g_pc = "suspended"
    /\ pulls >= 2
    /\ ~IsNone(item)
    /\ Len(Yielded.inputs[1]) = 2
    /\ Yielded.inputs[1][1].shifted
    /\ Yielded.inputs[1][1].offset # <<0, 0>>
    /\ Yielded.inputs[2][1] # Yielded.inputs[2][2]

(***************************************************************************)
(* Properties of the models create_capsnet returns                         *)
(***************************************************************************)
Backbone == {"conv1", "primary_caps", "caps1"}

Decoders(graph) == graph.layers \ (Backbone \cup Weightless)

WeightsInModel == IF Printed("loaded") THEN "loaded" ELSE "random"

\* C12: every model create_capsnet returns is built over the one conv1, the
\* one primary-capsule layer and the one capsule layer, and whichever of them
\* has a decoder has the one decoder; so each mode function computes with the
\* weights of the training model, loaded ones if main loaded a file.  The
\* training and the manipulate model mask by the label input y, the
\* evaluation model without a label.
C12_ModelsShareLayers ==
    /\ \A k \in DOMAIN created :
         LET graphs == created[k].models IN
         /\ DOMAIN graphs = {"train", "eval", "manipulate"}
                              \cup (IF created[k].has_fool_model THEN {"fool"} ELSE {})
         /\ \A m \in DOMAIN graphs :
              /\ Backbone \subseteq graphs[m].layers
              /\ Decoders(graphs[m]) \subseteq {"decoder"}
              /\ graphs[m].layers \ Weightless \subseteq graphs["train"].layers
         /\ \A m \in {"train", "eval", "manipulate"} : Decoders(graphs[m]) = {"decoder"}
         /\ \E i \in DOMAIN graphs["train"].mask : graphs["train"].mask[i] = "y"
         /\ \E i \in DOMAIN graphs["manipulate"].mask : graphs["manipulate"].mask[i] = "y"
         /\ \A i \in DOMAIN graphs["eval"].mask : graphs["eval"].mask[i] # "y"
    /\ \A k \in DOMAIN runs :
         /\ Backbone \subseteq DOMAIN runs[k].weights
         /\ \A l \in DOMAIN runs[k].weights : runs[k].weights[l] = WeightsInModel

\* cifar10 in test mode with a weights file loaded: the evaluation model and
\* then the manipulate model have run
C12_Witness ==
    /\ program = "cifar10"
    /\ Printed("loaded")
    /\ Len(runs) = 2
    /\ runs[1].model = "eval"
    /\ runs[2].model = "manipulate"
    /\ runs[2].weights["decoder"] = "loaded"
    /\ m_pc = "done"

(***************************************************************************)
(* Properties of manipulate_latent                                         *)
(***************************************************************************)
Swept == ml_pc \in {"loop", "stacked"}

\* C13: for each capsule dimension 0 .. out_dim - 1 in turn, r takes 11
\* increasing values from -0.25 to 0.25, one prediction each, so 11 * out_dim
\* predictions in dimension-major order when the sweep is over; the noise
\* given to a prediction is r at that dimension for every class and 0
\* elsewhere, and the base noise tensor stays all zero.
C13_SweepsElevenPerDim ==
    Swept =>
      /\ noise = ZeroNoise(ml_dims)
      /\ Len(x_recons) <= 11 * ml_dims.out_dim
      /\ ml_pc = "stacked" => Len(x_recons) = 11 * ml_dims.out_dim
      /\ \A k \in DOMAIN x_recons :
           /\ x_recons[k].dim = (k - 1) \div 11
           /\ (k - 1) % 11 = 0 => x_recons[k].r = MinusQuarter
           /\ (k - 1) % 11 = 10 => x_recons[k].r = Quarter
           /\ (k - 1) % 11 # 0 =>
                /\ DoubleLess(x_recons[k - 1].r, x_recons[k].r)
                /\ x_recons[k].r = DoubleAdd(x_recons[k - 1].r, Step)
           /\ \A j \in 1 .. ml_dims.n_class : \A d \in 0 .. ml_dims.out_dim - 1 :
                x_recons[k].noise[j][d] = IF d = x_recons[k].dim THEN x_recons[k].r ELSE Zero

\* the sweep over two dimensions is over: 22 predictions, the last one of the
\* second dimension at 0.25
C13_Witness ==
    /\ ml_pc = "stacked"
    /\ ml_dims.out_dim = 2
    /\ Len(x_recons) = 22
    /\ x_recons[22].dim = 1
    /\ x_recons[22].r = Quarter
    /\ x_recons[22].noise[1][1] = Quarter
    /\ x_recons[22].noise[1][0] = Zero

OfClass == {i \in DOMAIN ml_y_true : ml_y_true[i] = ml_args.manipulate}

\* C17: when the test set holds at least one sample of the class
\* args.manipulate, picking the sample does not fail, and the sample picked
\* is of that class.
C17_SelectionSucceeds ==
    (ml_pc \notin {"off", "idle"} /\ OfClass # {}) =>
        /\ ml_pc # "error"
        /\ chosen.sample \in OfClass

(***************************************************************************)
(* Properties of adversarial_attack: the debug image, the test set's end   *)
(***************************************************************************)
FirstFound ==
    CHOOSE i \in DOMAIN samples :
        samples[i].found /\ \A h \in 1 .. i - 1 : ~samples[h].found

\* C14: the attack image is shown at most once in a run: with debug set, for
\* the first sample for which the attack found an adversarial input and for
\* no later one; with debug not set, never.  The counters are what the
\* samples alone determine, whatever debug is.
C14_DebugShownOnce ==
    /\ [](/\ Len(shown) <= 1
          /\ shown # <<>> =>
               /\ ~debug
               /\ \E i \in DOMAIN samples : samples[i].found
               /\ shown[1] = samples[FirstFound].id
          /\ debug => \A i \in DOMAIN samples : ~samples[i].found
          /\ num_attacks = NumSucceeded + NumFailed
          /\ num_success_attacks = NumSucceeded)
    /\ [][ ~debug => (shown' = shown /\ ~debug') ]_vars
    /\ [][ (debug /\ Examined /\ LastSample.found) => shown' = <<LastSample.id>> ]_vars

\* the image was shown for a sample that was not the first one examined, and a
\* later sample had an adversarial input too
C14_Witness ==
    /\ a_pc = "done"
    /\ Len(shown) = 1
    /\ shown[1] >= 1
    /\ \E i \in DOMAIN samples : samples[i].found /\ samples[i].id > shown[1]
    /\ \E i \in DOMAIN samples : samples[i].attacked /\ ~samples[i].found
                                   /\ samples[i].id < shown[1]

\* C15: adversarial_attack reads x_test and y_test only at indices inside the
\* test set, and so reaches its report, for a test set of any size.
C15_NoReadPastTestSet ==
    /\ a_pc # "IndexError"
    /\ \A i \in DOMAIN samples : samples[i].id < Len(y_test)
    /\ a_pc \in {"done", "ZeroDivisionError"} => max_num_attacks <= Len(y_test)

(***************************************************************************)
(* Properties of test                                                      *)
(***************************************************************************)
Predicted == t_pc \notin {"off", "idle", "predicting"}

Misclassified == {i \in 0 .. Len(t_y_true) - 1 : t_y_true[i + 1] # y_pred[i + 1]}

\* C16: however many test samples there are and whatever the batch size, test
\* gets one prediction per test sample, so neither the metrics nor the loop
\* over the samples fails, and when test returns a wrongly_classified_i image
\* has been saved for exactly the samples i predicted wrongly.
C16_OnePredictionPerSample ==
    Predicted =>
        /\ Len(y_pred) = Len(t_y_true)
        /\ t_pc \notin {"ValueError", "IndexError"}
        /\ t_pc = "done" => {saved[k].i : k \in DOMAIN saved} = Misclassified

(***************************************************************************)
(* Properties of main: the input shape                                     *)
(***************************************************************************)
BothCrops == ~IsNone(args.crop_x) /\ ~IsNone(args.crop_y)

\* the shape of an image of the batches the generators yield: the crop size
\* with the image's channels, or the dataset's own shape
BatchShape ==
    IF BothCrops THEN <<args.crop_x, args.crop_y, DatasetShape("cifar10")[3]>>
    ELSE DatasetShape("cifar10")

\* C18: the input shape cifar10 main gives to create_capsnet is a flat triple
\* of integers: (crop_x, crop_y, channels) when both crops are given, the
\* dataset's (height, width, channels) otherwise, which is the shape of the
\* images the generators yield.
C18_ShapeIsFlatTriple ==
    program = "cifar10" =>
        \A k \in DOMAIN created :
            /\ Len(created[k].input_shape) = 3
            /\ IsFlatShape(created[k].input_shape)
            /\ created[k].input_shape = BatchShape

====
